---- MODULE Spec2Model ----
(***************************************************************************)
(* The AI Router of PerculaCms (core/services/ai): model resolution over   *)
(* the AIProvider/AIModel registry, adapter construction, the              *)
(* AIJobsHistory ledger and the cost calculation, as a state machine.      *)
(*                                                                         *)
(* Python's None is the empty tuple and a present value v is <<v>>, so a   *)
(* nullable field can be compared with any value.  A decimal.Decimal is a  *)
(* record [c, e] standing for c * 10^e, kept normalised (no trailing zero  *)
(* in c), so that equal numbers are equal records.                         *)
(*                                                                         *)
(* Spec runs concurrent chat calls; SpecGenerate runs one generate call    *)
(* beside one direct chat call; SpecResolve, SpecCost and SpecAdapter      *)
(* apply _resolve_model, calculate_cost and the vendor adapters on their   *)
(* own, over all their inputs; SpecSecret runs the chat calls with the     *)
(* stored or with rotated credentials; SpecAgent runs a page view of the   *)
(* CMS (core/cms_views.py) through run_agent into one chat call.           *)
(***************************************************************************)
EXTENDS Integers, Sequences, FiniteSets, TLC

\* ------------------------------------------------------------------ bounds

\* Number of AIRouter.chat calls (possibly concurrent) in one behaviour.
MaxCalls == 2

Calls == 1..MaxCalls

\* int((time.monotonic() - start) * 1000) of each call: the first call takes
\* less than a millisecond, every later call one millisecond more.
ElapsedMs(c) == c - 1

\* ------------------------------------------------------------------ values

None == << >>

Some(v) == <<v>>

Val(o) == o[1]

\* Python truthiness of an Optional[str]: None and '' are false.
Truthy(o) == o # None /\ Val(o) # ""

\* ------------------------------------------------------------------ decimal

RECURSIVE Pow10(_)
Pow10(n) == IF n <= 0 THEN 1 ELSE 10 * Pow10(n - 1)

RECURSIVE Digits(_)
Digits(n) == IF n < 10 THEN 1 ELSE 1 + Digits(n \div 10)

RECURSIVE Norm(_)
Norm(d) ==
    IF d.c = 0 THEN [c |-> 0, e |-> 0]
    ELSE IF d.c % 10 = 0 THEN Norm([c |-> d.c \div 10, e |-> d.e + 1])
    ELSE d

\* Decimal(n) for an int n.
Decimal(n) == Norm([c |-> n, e |-> 0])

\* A decimal literal such as Decimal('5.0'): coefficient and exponent.
Dec(c, e) == Norm([c |-> c, e |-> e])

DecMin(a, b) == IF a < b THEN a ELSE b

DecAdd(a, b) ==
    LET e == DecMin(a.e, b.e)
    IN  Norm([c |-> a.c * Pow10(a.e - e) + b.c * Pow10(b.e - e), e |-> e])

DecMul(a, b) == Norm([c |-> a.c * b.c, e |-> a.e + b.e])

\* a / b for a divisor that is a power of ten (the only divisor the code uses
\* is Decimal(1_000_000)); the quotient is then exact.
DecDiv(a, b) == Norm([c |-> a.c \div b.c, e |-> a.e - b.e])

\* ------------------------------------------------------------------ pricing

\* A calculate_cost that tests its inputs with `not x` in place of
\* `x is None`: a zero counts as missing.
calculate_cost_falsy(input_tokens, output_tokens, input_price_per_1m, output_price_per_1m) ==
    IF \/ input_tokens = None \/ Val(input_tokens) = 0
       \/ output_tokens = None \/ Val(output_tokens) = 0
       \/ input_price_per_1m = None \/ Val(input_price_per_1m).c = 0
       \/ output_price_per_1m = None \/ Val(output_price_per_1m).c = 0
    THEN None
    ELSE Some(DecAdd(
            DecMul(DecDiv(Decimal(Val(input_tokens)), Decimal(1000000)),
                   Val(input_price_per_1m)),
            DecMul(DecDiv(Decimal(Val(output_tokens)), Decimal(1000000)),
                   Val(output_price_per_1m))))

\* pricing.calculate_cost
calculate_cost(input_tokens, output_tokens, input_price_per_1m, output_price_per_1m) ==
    IF \/ input_tokens = None
       \/ output_tokens = None
       \/ input_price_per_1m = None
       \/ output_price_per_1m = None
    THEN None
    ELSE Some(DecAdd(
            DecMul(DecDiv(Decimal(Val(input_tokens)), Decimal(1000000)),
                   Val(input_price_per_1m)),
            DecMul(DecDiv(Decimal(Val(output_tokens)), Decimal(1000000)),
                   Val(output_price_per_1m))))

\* ------------------------------------------------------------------ registry

\* AIProvider.ProviderType
ProviderType == {"OpenAI", "Gemini", "Claude"}

\* The adapters registered in _PROVIDER_CLASSES.
PROVIDER_CLASSES == {"OpenAI", "Gemini"}

\* The AIProvider rows of the registry (the index is the primary key).
AIProvider ==
    << [name |-> "OpenAI Main", provider_type |-> "OpenAI",
        api_key |-> "sk-openai", organization_id |-> "org-1"],
       [name |-> "Gemini Main", provider_type |-> "Gemini",
        api_key |-> "sk-gemini", organization_id |-> ""],
       [name |-> "Claude Main", provider_type |-> "Claude",
        api_key |-> "sk-claude", organization_id |-> ""] >>

\* The AIModel rows of the registry (the index is the primary key).  Rows 1
\* and 2 have the same provider and the same name: they tie on Meta.ordering.
AIModel ==
    << [provider |-> 1, name |-> "GPT-4o", model_id |-> "gpt-4o",
        input_price_per_1m_tokens |-> Some(Dec(50, -1)),
        output_price_per_1m_tokens |-> Some(Dec(150, -1))],
       [provider |-> 1, name |-> "GPT-4o", model_id |-> "gpt-4o-2024",
        input_price_per_1m_tokens |-> Some(Dec(50, -1)),
        output_price_per_1m_tokens |-> None],
       [provider |-> 1, name |-> "GPT-4o mini", model_id |-> "gpt-4o-mini",
        input_price_per_1m_tokens |-> Some(Dec(1, -3)),
        output_price_per_1m_tokens |-> Some(Dec(1, -3))],
       [provider |-> 2, name |-> "Gemini Flash", model_id |-> "gemini-flash",
        input_price_per_1m_tokens |-> Some(Dec(5000, 0)),
        output_price_per_1m_tokens |-> Some(Dec(5000, 0))],
       [provider |-> 3, name |-> "Claude Sonnet", model_id |-> "claude-sonnet",
        input_price_per_1m_tokens |-> Some(Dec(30, -1)),
        output_price_per_1m_tokens |-> Some(Dec(150, -1))] >>

ProviderIds == DOMAIN AIProvider

ModelIds == DOMAIN AIModel

\* The strings the registry is ordered by, in the database's collation order.
Collation ==
    << "Claude", "Claude Main", "Claude Sonnet", "GPT-4o", "GPT-4o mini",
       "Gemini", "Gemini Flash", "Gemini Main", "OpenAI", "OpenAI Main" >>

Rank(s) == CHOOSE i \in DOMAIN Collation : Collation[i] = s

VARIABLES
    is_active,      \* AIProvider.is_active of each provider row
    active,         \* AIModel.active of each model row
    api_key         \* AIProvider.api_key of each provider row

\* AIModel.Meta.ordering = ['provider', 'name'], where ordering by the foreign
\* key is AIProvider.Meta.ordering = ['provider_type', 'name'].  The primary
\* key is no part of it.
OrderKey(m) ==
    << Rank(AIProvider[AIModel[m].provider].provider_type),
       Rank(AIProvider[AIModel[m].provider].name),
       Rank(AIModel[m].name) >>

KeyLess(a, b) ==
    \/ a[1] < b[1]
    \/ a[1] = b[1] /\ a[2] < b[2]
    \/ a[1] = b[1] /\ a[2] = b[2] /\ a[3] < b[3]

\* A first() on a queryset without an ordering: any row may come back.
first_unordered(qs) ==
    IF qs = {} THEN {None} ELSE {Some(m) : m \in qs}

\* QuerySet.first() on a queryset ordered by Meta.ordering: None when empty,
\* else a row no other row precedes.  Rows that tie on the ordering come in an
\* order the database chooses, so each of them is a possible result.
first(qs) ==
    IF qs = {} THEN {None}
    ELSE {Some(m) : m \in {x \in qs : \A y \in qs : ~KeyLess(OrderKey(y), OrderKey(x))}}

\* A base queryset that forgets the provider__is_active condition.
ActiveQsModelOnly == {m \in ModelIds : active[m]}

\* AIModel.objects.filter(active=True, provider__is_active=True)
ActiveQs == {m \in ModelIds : active[m] /\ is_active[AIModel[m].provider]}

\* A vendor filter that lets the rows of every vendor through.
FilterProviderTypeAny(qs, provider_type) == qs

FilterProviderType(qs, provider_type) ==
    {m \in qs : AIProvider[AIModel[m].provider].provider_type = provider_type}

\* An exact filter that forgets the model_id condition.
FilterExactAnyModel(qs, provider_type, model_id) ==
    FilterProviderType(qs, provider_type)

\* qs.filter(provider__provider_type=provider_type, model_id=model_id)
FilterExact(qs, provider_type, model_id) ==
    {m \in FilterProviderType(qs, provider_type) : AIModel[m].model_id = model_id}

\* A _resolve_model without the fallback of lines 188-189: when both hints are
\* given, only the exact match counts.
resolve_model_exact_only(model_id, provider_type) ==
    IF Truthy(provider_type) /\ Truthy(model_id)
    THEN first(FilterExact(ActiveQs, Val(provider_type), Val(model_id)))
    ELSE IF Truthy(provider_type)
    THEN first(FilterProviderType(ActiveQs, Val(provider_type)))
    ELSE IF FilterProviderType(ActiveQs, "OpenAI") # {}
    THEN first(FilterProviderType(ActiveQs, "OpenAI"))
    ELSE IF FilterProviderType(ActiveQs, "Gemini") # {}
    THEN first(FilterProviderType(ActiveQs, "Gemini"))
    ELSE first(ActiveQs)

\* A resolution that looks a lone model_id up among the models of all vendors.
resolve_model_by_model_id(model_id, provider_type) ==
    IF Truthy(provider_type) /\ Truthy(model_id)
    THEN IF FilterExact(ActiveQs, Val(provider_type), Val(model_id)) # {}
         THEN first(FilterExact(ActiveQs, Val(provider_type), Val(model_id)))
         ELSE first(FilterProviderType(ActiveQs, Val(provider_type)))
    ELSE IF Truthy(provider_type)
    THEN first(FilterProviderType(ActiveQs, Val(provider_type)))
    ELSE IF Truthy(model_id) /\ {m \in ActiveQs : AIModel[m].model_id = Val(model_id)} # {}
    THEN first({m \in ActiveQs : AIModel[m].model_id = Val(model_id)})
    ELSE IF FilterProviderType(ActiveQs, "OpenAI") # {}
    THEN first(FilterProviderType(ActiveQs, "OpenAI"))
    ELSE IF FilterProviderType(ActiveQs, "Gemini") # {}
    THEN first(FilterProviderType(ActiveQs, "Gemini"))
    ELSE first(ActiveQs)

\* AIRouter._resolve_model up to line 208: the values ai_model may have when
\* the final None test is reached (None, or Some(primary key)).
resolve_model(model_id, provider_type) ==
    IF Truthy(provider_type) /\ Truthy(model_id)
    THEN IF FilterExact(ActiveQs, Val(provider_type), Val(model_id)) # {}
         THEN first(FilterExact(ActiveQs, Val(provider_type), Val(model_id)))
         ELSE first(FilterProviderType(ActiveQs, Val(provider_type)))
    ELSE IF Truthy(provider_type)
    THEN first(FilterProviderType(ActiveQs, Val(provider_type)))
    ELSE IF FilterProviderType(ActiveQs, "OpenAI") # {}
    THEN first(FilterProviderType(ActiveQs, "OpenAI"))
    ELSE IF FilterProviderType(ActiveQs, "Gemini") # {}
    THEN first(FilterProviderType(ActiveQs, "Gemini"))
    ELSE first(ActiveQs)

\* ------------------------------------------------------------------ errors

\* An exception is its class and its str().
Exc(cls, msg) == [cls |-> cls, msg |-> msg]

\* The classes of this model that derive from Exception; KeyboardInterrupt and
\* SystemExit derive from BaseException only.
ExceptionClasses ==
    {"ServiceNotConfigured", "RuntimeError", "InvalidOperation", "DataError",
     "ImportError", "IndexError", "APIConnectionError", "AuthenticationError",
     "ClientError", "AgentNotFoundError", "PermissionDenied", "Http404",
      "IntegrityError"}

IsException(exc) == exc.cls \in ExceptionClasses

NoActiveModelError == Exc("ServiceNotConfigured", "No active AI model configured.")

NoProviderImplementationError(provider_type) ==
    Exc("ServiceNotConfigured",
        "No provider implementation for type \"" \o provider_type \o "\".")

Returned(r) == [raised |-> FALSE, value |-> r]

Raised(e) == [raised |-> TRUE, exc |-> e]

\* AIRouter._resolve_model, lines 210-213, for a value m of ai_model: raise,
\* or return (ai_model, ai_model.provider).
resolve_result(m) ==
    IF m = None THEN Raised(NoActiveModelError)
    ELSE Returned(<<Val(m), AIModel[Val(m)].provider>>)

\* A log record: its level and its text, as the parts the f-string is made of.
LogRecord(level, parts) == [level |-> level, parts |-> parts]

\* What _resolve_model logs (router.py lines 184-195) when m is the value of
\* ai_model it ends with: a warning when the exact match fails, and an info
\* line naming the fallback model when there is one.
resolve_log(model_id, provider_type, m) ==
    IF /\ Truthy(provider_type) /\ Truthy(model_id)
       /\ FilterExact(ActiveQs, Val(provider_type), Val(model_id)) = {}
    THEN << LogRecord("WARNING",
                << "Model '", Val(model_id), "' not found for provider '",
                   Val(provider_type),
                   "'. Falling back to any active model of that provider." >>) >>
         \o ( IF m # None
              THEN << LogRecord("INFO",
                          << "Using fallback model: ", AIModel[Val(m)].model_id,
                             " (provider: ", AIProvider[AIModel[Val(m)].provider].name,
                             ")" >>) >>
              ELSE << >> )
    ELSE << >>

\* A _build_provider that falls back to the OpenAI adapter for a vendor type
\* without a registered adapter.
build_provider_default(provider_record) ==
    [raised |-> FALSE,
     cls |-> IF AIProvider[provider_record].provider_type \in PROVIDER_CLASSES
             THEN AIProvider[provider_record].provider_type ELSE "OpenAI",
     api_key |-> api_key[provider_record],
     organization_id |-> AIProvider[provider_record].organization_id]

\* AIRouter._build_provider: the adapter it returns, or the error it raises.
build_provider(provider_record) ==
    IF AIProvider[provider_record].provider_type \notin PROVIDER_CLASSES
    THEN [raised |-> TRUE,
          exc |-> NoProviderImplementationError(AIProvider[provider_record].provider_type)]
    ELSE [raised |-> FALSE,
          cls |-> AIProvider[provider_record].provider_type,
          api_key |-> api_key[provider_record],
          organization_id |-> AIProvider[provider_record].organization_id]

\* ------------------------------------------------------------------ ledger

\* AIJobsHistory.costs = DecimalField(max_digits=12, decimal_places=8)
CostsMaxDigits == 12

CostsDecimalPlaces == 8

\* A costs column that takes every cost.
CostsFitsAny(cost) == TRUE

\* Whether a cost can be written to the costs column: at most
\* max_digits - decimal_places digits before the decimal point.
CostsFits(cost) ==
    \/ cost = None
    \/ Val(cost).c = 0
    \/ Digits(Val(cost).c) + Val(cost).e <= CostsMaxDigits - CostsDecimalPlaces

\* The values the costs column may hold after a cost that fits is written: the
\* cost rounded to decimal_places.  Django's SQLite backend quantizes half-even,
\* PostgreSQL's numeric rounds half away from zero: on a tie both are possible.
CostsStored(cost) ==
    IF cost = None THEN {None}
    ELSE IF Val(cost).e >= -CostsDecimalPlaces THEN {cost}
    ELSE LET k    == -CostsDecimalPlaces - Val(cost).e
             q    == Val(cost).c \div Pow10(k)
             r    == Val(cost).c % Pow10(k)
             half == 5 * Pow10(k - 1)
             up   == Some(Dec(q + 1, -CostsDecimalPlaces))
             down == Some(Dec(q, -CostsDecimalPlaces))
         IN  IF r > half THEN {up}
             ELSE IF r < half THEN {down}
             ELSE IF q % 2 = 1 THEN {up}
             ELSE {up, down}

\* What job.save raises when the cost does not fit the column
\* (decimal.InvalidOperation from Django's format_number, or the database's
\* numeric overflow error).
SaveErrors ==
    { Exc("InvalidOperation", "[<class 'decimal.InvalidOperation'>]"),
      Exc("DataError", "numeric field overflow") }

\* ------------------------------------------------------------------ adapters

\* Longest message list the adapters are called with.
MaxMessages == 3

\* dict.get(key, default) on a message.
MsgGet(msg, key, default) == IF key \in DOMAIN msg THEN msg[key] ELSE default

\* A role map that passes the roles through.
ROLE_MAP_unchanged(role) == role

\* gemini_provider._ROLE_MAP.get(role, 'user')
ROLE_MAP(role) ==
    IF role = "assistant" THEN "model" ELSE "user"

\* The contents of the system messages, in order (gemini_provider.py 27-34).
RECURSIVE system_parts(_)
system_parts(messages) ==
    IF messages = << >> THEN << >>
    ELSE IF MsgGet(Head(messages), "role", "user") = "system"
    THEN <<MsgGet(Head(messages), "content", "")>> \o system_parts(Tail(messages))
    ELSE system_parts(Tail(messages))

\* The Gemini contents of the other messages, in order (gemini_provider.py 35-36).
RECURSIVE contents(_)
contents(messages) ==
    IF messages = << >> THEN << >>
    ELSE IF MsgGet(Head(messages), "role", "user") = "system"
    THEN contents(Tail(messages))
    ELSE << [role |-> ROLE_MAP(MsgGet(Head(messages), "role", "user")),
             parts |-> << [text |-> MsgGet(Head(messages), "content", "")] >>] >>
         \o contents(Tail(messages))

\* '\n'.join(parts)
RECURSIVE JoinLines(_)
JoinLines(parts) ==
    IF parts = << >> THEN ""
    ELSE IF Len(parts) = 1 THEN parts[1]
    ELSE parts[1] \o "\n" \o JoinLines(Tail(parts))

\* gemini_provider._convert_messages: (system_instruction, contents).
convert_messages(messages) ==
    << IF system_parts(messages) # << >>
       THEN Some(JoinLines(system_parts(messages))) ELSE None,
       contents(messages) >>

\* The keyword arguments of client.chat.completions.create
\* (openai_provider.py lines 43-47); None stands for a key that is not passed.
openai_call_kwargs(messages, model_id, temperature, max_tokens) ==
    [ model |-> model_id, messages |-> messages,
      temperature |-> temperature, max_tokens |-> max_tokens ]

\* The keyword arguments of client.models.generate_content
\* (gemini_provider.py lines 66-80); None stands for a key, or a config, that
\* is not passed.  An empty system instruction is not passed.
gemini_call_kwargs(messages, model_id, temperature, max_tokens) ==
    LET system_instruction == convert_messages(messages)[1]
        config_kwargs ==
            [ temperature |-> temperature, max_output_tokens |-> max_tokens,
              system_instruction |->
                  IF Truthy(system_instruction) THEN system_instruction ELSE None ]
    IN  [ model |-> model_id, contents |-> convert_messages(messages)[2],
          config |-> IF \A k \in DOMAIN config_kwargs : config_kwargs[k] = None
                     THEN None ELSE Some(config_kwargs) ]

ProviderResponse(text, input_tokens, output_tokens) ==
    [text |-> text, raw |-> "raw", input_tokens |-> input_tokens,
     output_tokens |-> output_tokens]

\* `value or ''` for an Optional[str].
OrEmpty(o) == IF Truthy(o) THEN Val(o) ELSE ""

\* OpenAIProvider.chat from the vendor call on (openai_provider.py lines
\* 29-64), for what the import and the SDK call do: v.kind is "import_error",
\* "raise" (the SDK call raises v.exc) or "response".
openai_chat(v) ==
    IF v.kind = "import_error"
    THEN Raised(Exc("ImportError",
            "openai package is required for OpenAIProvider. Install it with: pip install openai"))
    ELSE IF v.kind = "raise" THEN Raised(v.exc)
    ELSE IF v.choices = << >> THEN Raised(Exc("IndexError", "list index out of range"))
    ELSE Returned(ProviderResponse(
            OrEmpty(v.choices[1].content),
            IF v.usage # None THEN Val(v.usage).prompt_tokens ELSE None,
            IF v.usage # None THEN Val(v.usage).completion_tokens ELSE None))

\* GeminiProvider.chat from the vendor call on (gemini_provider.py lines 55-98).
gemini_chat(v) ==
    IF v.kind = "import_error"
    THEN Raised(Exc("ImportError",
            "google-genai package is required for GeminiProvider. Install it with: pip install google-genai"))
    ELSE IF v.kind = "raise" THEN Raised(v.exc)
    ELSE Returned(ProviderResponse(
            OrEmpty(v.text),
            IF v.usage_metadata # None THEN Val(v.usage_metadata).prompt_token_count ELSE None,
            IF v.usage_metadata # None THEN Val(v.usage_metadata).candidates_token_count
            ELSE None))

\* What the OpenAI SDK may do: fail to import, raise, or answer with no
\* choice, or with one choice whose content is missing, empty or a text, with
\* or without usage.
OpenAIVendor ==
    { [kind |-> "import_error"],
      [kind |-> "raise", exc |-> Exc("APIConnectionError", "Connection error.")],
      [kind |-> "raise", exc |-> Exc("AuthenticationError", "Incorrect API key provided.")] }
    \cup { [kind |-> "response", choices |-> ch, usage |-> u] :
             ch \in { << >>, << [content |-> None] >>, << [content |-> Some("")] >>,
                      << [content |-> Some("Hello, world!")] >> },
             u \in { None, Some([prompt_tokens |-> Some(10), completion_tokens |-> Some(5)]) } }

\* What the Gemini SDK may do: fail to import, raise, or answer with a text
\* that is missing, empty or present, with or without usage metadata, whose
\* counts may be missing.
GeminiVendor ==
    { [kind |-> "import_error"],
      [kind |-> "raise", exc |-> Exc("ClientError", "429 RESOURCE_EXHAUSTED")] }
    \cup { [kind |-> "response", text |-> t, usage_metadata |-> u] :
             t \in { None, Some(""), Some("Hello, world!") },
             u \in { None,
                     Some([prompt_token_count |-> Some(10), candidates_token_count |-> Some(5)]),
                     Some([prompt_token_count |-> Some(10), candidates_token_count |-> None]) } }

\* The messages of the lists the adapters are called with; one has no role.
MessagePool ==
    { [role |-> "system", content |-> "Be brief."], [role |-> "system", content |-> ""],
      [role |-> "user", content |-> "Hi"], [role |-> "assistant", content |-> "Hello"],
      [role |-> "tool", content |-> "42"], [content |-> "Hi"] }

MessageLists == UNION { [1..n -> MessagePool] : n \in 0..MaxMessages }

\* ------------------------------------------------------------------ adapter outcomes

\* ProviderResponse values an adapter's chat may return.  The token counts are
\* None when the vendor does not report them.
ProviderResponses ==
    { [text |-> t[1], raw |-> "raw", input_tokens |-> t[2], output_tokens |-> t[3]] :
        t \in { <<"Hello, world!", Some(10), Some(5)>>,
                <<"Hello, world!", None, None>>,
                <<"Hello, world!", Some(2000000), Some(0)>> } }

\* What an adapter's chat may raise: a vendor error, an error whose str() is
\* empty, and an interrupt of the blocking call (not an Exception subclass).
AdapterErrors ==
    { Exc("RuntimeError", "API error"),
      Exc("RuntimeError", ""),
      Exc("KeyboardInterrupt", "") }

\* ------------------------------------------------------------------ calls

\* The audit arguments of the chat calls: agent label, principal and client
\* address.  Every caller makes two calls in a row, so that a call can be
\* repeated with identical arguments: calls 1 and 2 are made by the first
\* caller, calls 3 and 4 by the second, and so on in turn.
Callers ==
    << [agent |-> "page-summary-agent", user |-> Some("editor"),
        client_ip |-> Some("10.0.0.7")],
       [agent |-> "core.ai", user |-> None, client_ip |-> None] >>

CallerOf(c) == Callers[(((c - 1) \div 2) % Len(Callers)) + 1]

ModelIdHints ==
    {None} \cup {Some(AIModel[m].model_id) : m \in ModelIds} \cup {Some("nonexistent-model")}

ProviderTypeHints == {None} \cup {Some(t) : t \in ProviderType}

\* The hints of the chat calls: none, a model of a vendor, a model that no
\* vendor offers, and a vendor without an adapter.
ChatHints ==
    { <<None, None>>, <<Some("gpt-4o"), Some("OpenAI")>>,
      <<Some("nonexistent-model"), Some("Gemini")>>, <<None, Some("Claude")>> }

\* The sampling options of a call: the defaults, or both set.
SamplingOptions ==
    { [temperature |-> None, max_tokens |-> None],
      [temperature |-> Some("0.7"), max_tokens |-> Some(256)] }

\* The arguments of chat (router.py lines 38-50) for caller c, messages msgs,
\* hints h and sampling options o.
ChatCall(c, msgs, h, o) ==
    [ messages |-> msgs, model_id |-> h[1], provider_type |-> h[2],
      user |-> CallerOf(c).user, client_ip |-> CallerOf(c).client_ip,
      agent |-> CallerOf(c).agent,
      temperature |-> o.temperature, max_tokens |-> o.max_tokens ]

\* The conversation of the chat calls (tests.py line 887).
TestMessages == << [role |-> "user", content |-> "Hi"] >>

ChatArgs(c) ==
    { ChatCall(c, TestMessages, h, [temperature |-> None, max_tokens |-> None]) :
        h \in ChatHints }

\* The prompts of the generate calls (tests.py line 927, and an empty one).
Prompts == {"Say hello.", ""}

\* The arguments of generate (router.py lines 127-139) for caller c.
GenerateArgs(c) ==
    { [ prompt |-> p, model_id |-> h[1], provider_type |-> h[2],
        user |-> CallerOf(c).user, client_ip |-> CallerOf(c).client_ip,
        agent |-> CallerOf(c).agent,
        temperature |-> o.temperature, max_tokens |-> o.max_tokens ] :
        p \in Prompts, h \in ChatHints, o \in SamplingOptions }

\* A wrapping that sends the prompt as a system message.
generate_messages_system(prompt) == << [role |-> "system", content |-> prompt] >>

\* The messages generate passes to chat (router.py line 145).
generate_messages(prompt) == << [role |-> "user", content |-> prompt] >>

\* The arguments generate calls chat with (router.py lines 144-154).
generate_chat_args(g) ==
    [ messages |-> generate_messages(g.prompt),
      model_id |-> g.model_id, provider_type |-> g.provider_type,
      user |-> g.user, client_ip |-> g.client_ip, agent |-> g.agent,
      temperature |-> g.temperature, max_tokens |-> g.max_tokens ]

\* The direct chat calls generate is compared with: a single message of
\* either role, with the prompts as content.
DirectChatArgs(c) ==
    { ChatCall(c, << [role |-> r, content |-> p] >>, h, o) :
        r \in {"user", "system"}, p \in Prompts, h \in ChatHints, o \in SamplingOptions }

VARIABLES
    jobs,           \* the AIJobsHistory table: a sequence of rows, index = pk
    pc,             \* where each chat call stands
    args,           \* the arguments of each chat call
    ai_model,       \* the local ai_model of each call: None or Some(pk)
    job,            \* the local job of each call: None or Some(pk)
    result,         \* how the adapter's chat ended for each call
    outcome,        \* how each call ended: a returned AIResponse or a raised error
    invoked,        \* how many times each call invoked the adapter's chat
    resolution,     \* the last result of a stand-alone _resolve_model
    costing,        \* the last stand-alone calculate_cost: inputs and result
    via,            \* the arguments of the generate call each chat call came from
    adapter_run,    \* the stand-alone adapter call: arguments, request and result
    provider,       \* the adapter each call built: None or its class and credential
    log,            \* the log records each call's router code emitted
    agents,         \* the agent ids the agent registry has loaded
    view            \* the page view each call is made for: None or its record

vars ==
    << is_active, active, api_key, jobs, pc, args, ai_model, job, result, outcome,
       invoked, resolution, costing, via, adapter_run, provider, log, agents, view >>

registry == << is_active, active, api_key, agents >>

\* The variables of the stand-alone runs.
standalone == << resolution, costing, adapter_run >>

\* The variables of the chat calls.
calls ==
    << jobs, pc, args, ai_model, job, result, outcome, invoked, via, provider, log,
       view >>

\* The row AIJobsHistory.objects.create inserts (router.py lines 75-83).  The
\* fields call and updates are history: the call that opened the row, and the
\* updates persisted on it (who, and the status written).
NewJob(c, a, provider_record, model, now) ==
    [ agent |-> a.agent, user |-> a.user, provider |-> Some(provider_record),
      model |-> Some(model), status |-> "Pending", client_ip |-> a.client_ip,
      input_tokens |-> None, output_tokens |-> None, costs |-> None,
      timestamp |-> now, duration_ms |-> None, error_message |-> "",
      call |-> c, updates |-> << >> ]

\* A Completed save that also writes an error text.
SaveCompletedWithMessage(c, row, res, stored, duration_ms) ==
    [ row EXCEPT !.status = "Completed",
                 !.input_tokens = res.input_tokens,
                 !.output_tokens = res.output_tokens,
                 !.costs = stored,
                 !.duration_ms = Some(duration_ms),
                 !.error_message = "OK",
                 !.updates = Append(@, [by |-> c, status |-> "Completed"]) ]

\* A Completed save whose update_fields leave out 'costs'.
SaveCompletedWithoutCosts(c, row, res, stored, duration_ms) ==
    [ row EXCEPT !.status = "Completed",
                 !.input_tokens = res.input_tokens,
                 !.output_tokens = res.output_tokens,
                 !.duration_ms = Some(duration_ms),
                 !.updates = Append(@, [by |-> c, status |-> "Completed"]) ]

\* job.save(update_fields=['status', 'input_tokens', 'output_tokens', 'costs',
\* 'duration_ms']) after lines 103-107.
SaveCompleted(c, row, res, stored, duration_ms) ==
    [ row EXCEPT !.status = "Completed",
                 !.input_tokens = res.input_tokens,
                 !.output_tokens = res.output_tokens,
                 !.costs = stored,
                 !.duration_ms = Some(duration_ms),
                 !.updates = Append(@, [by |-> c, status |-> "Completed"]) ]

\* An Error save that also writes the start timestamp anew.
SaveErrorRestamped(c, row, e, duration_ms) ==
    [ row EXCEPT !.status = "Error",
                 !.duration_ms = Some(duration_ms),
                 !.error_message = e.msg,
                 !.timestamp = Len(jobs),
                 !.updates = Append(@, [by |-> c, status |-> "Error"]) ]

\* An Error save whose error text is the provider's credential.
SaveErrorWithCredential(c, row, e, duration_ms) ==
    [ row EXCEPT !.status = "Error",
                 !.duration_ms = Some(duration_ms),
                 !.error_message = api_key[Val(row.provider)],
                 !.updates = Append(@, [by |-> c, status |-> "Error"]) ]

\* job.save(update_fields=['status', 'duration_ms', 'error_message']) after
\* lines 121-123.
SaveError(c, row, e, duration_ms) ==
    [ row EXCEPT !.status = "Error",
                 !.duration_ms = Some(duration_ms),
                 !.error_message = e.msg,
                 !.updates = Append(@, [by |-> c, status |-> "Error"]) ]

\* A response that reports the model's display name in place of its model_id.
AIResponseDisplayName(res, model) ==
    [ text |-> res.text, raw |-> res.raw,
      input_tokens |-> res.input_tokens, output_tokens |-> res.output_tokens,
      model |-> AIModel[model].name,
      provider |-> AIProvider[AIModel[model].provider].provider_type ]

\* The AIResponse of lines 110-117.
AIResponse(res, model) ==
    [ text |-> res.text, raw |-> res.raw,
      input_tokens |-> res.input_tokens, output_tokens |-> res.output_tokens,
      model |-> AIModel[model].model_id,
      provider |-> AIProvider[AIModel[model].provider].provider_type ]

\* Whether the handler `except Exception` of line 119 catches e.
Catches(e) == IsException(e)

\* A handler that raises a service error of its own in place of e.
ReraiseWrapped(e) == Exc("ServiceError", e.msg)

\* What the bare `raise` of line 125 raises while e is being handled.
Reraise(e) == e

\* A create that reuses a row of an identical earlier request in place of
\* inserting a new one.
InsertJobDeduplicated(table, row) ==
    IF \E i \in DOMAIN table :
          /\ table[i].agent = row.agent /\ table[i].user = row.user
          /\ table[i].client_ip = row.client_ip
          /\ table[i].provider = row.provider /\ table[i].model = row.model
    THEN table
    ELSE Append(table, row)

\* An object that is constructed but never saved.
InsertJobUnsaved(table, row) == table

\* AIJobsHistory.objects.create: the table with the new row inserted.
InsertJob(table, row) == Append(table, row)

\* ------------------------------------------------------------------ AIRouter.chat

\* timezone.now(): logical time, which advances with every insert.
Now == Len(jobs)

\* A save that goes to the row inserted last, whichever call inserted it.
JobPkLatest(c) == Len(jobs)

\* A job object shared by all calls of the router: the first row.
JobPkShared(c) == 1

\* The primary key of the row that job.save() of call c updates.
JobPk(c) == Val(job[c])

\* Lines 72-73: resolve the model and build the adapter.  Either raises
\* ServiceNotConfigured out of chat.  Calls are numbered in the order they start.
ChatEntry(c, a) ==
    /\ pc[c] = "idle"
    /\ \A d \in Calls : d < c => pc[d] # "idle"
    /\ args' = [args EXCEPT ![c] = Some(a)]
    /\ \E m \in resolve_model(a.model_id, a.provider_type) :
          /\ log' = [log EXCEPT ![c] = @ \o resolve_log(a.model_id, a.provider_type, m)]
          /\ IF resolve_result(m).raised
             THEN /\ pc' = [pc EXCEPT ![c] = "done"]
                  /\ outcome' = [outcome EXCEPT ![c] = Some(Raised(resolve_result(m).exc))]
                  /\ UNCHANGED << ai_model, provider >>
             ELSE IF build_provider(resolve_result(m).value[2]).raised
             THEN /\ pc' = [pc EXCEPT ![c] = "done"]
                  /\ outcome' = [outcome EXCEPT ![c] =
                         Some(Raised(build_provider(resolve_result(m).value[2]).exc))]
                  /\ UNCHANGED << ai_model, provider >>
             ELSE /\ pc' = [pc EXCEPT ![c] = "built"]
                  /\ ai_model' = [ai_model EXCEPT ![c] = Some(resolve_result(m).value[1])]
                  /\ provider' = [provider EXCEPT ![c] =
                         Some(build_provider(resolve_result(m).value[2]))]
                  /\ UNCHANGED outcome
    /\ UNCHANGED << registry, jobs, job, result, invoked, standalone >>

\* AIRouter.chat called directly with arguments a.
Chat(c, a) ==
    /\ ChatEntry(c, a)
    /\ UNCHANGED << via, view >>

\* AIRouter.generate called with arguments g: wraps the prompt and enters chat.
Generate(c, g) ==
    /\ ChatEntry(c, generate_chat_args(g))
    /\ via' = [via EXCEPT ![c] = Some(g)]
    /\ UNCHANGED view

\* Lines 75-83: AIJobsHistory.objects.create(..., status=PENDING, ...).
Create(c) ==
    /\ pc[c] = "built"
    /\ jobs' = InsertJob(jobs, NewJob(c, Val(args[c]), AIModel[Val(ai_model[c])].provider,
                                      Val(ai_model[c]), Now))
    /\ job' = [job EXCEPT ![c] = Some(Len(jobs) + 1)]
    /\ pc' = [pc EXCEPT ![c] = "pending"]
    /\ UNCHANGED << registry, args, ai_model, result, outcome, invoked, via, view,
                    provider, log, standalone >>

\* Lines 85-93: provider.chat(...) is entered; the call blocks in the adapter.
Invoke(c) ==
    /\ pc[c] = "pending"
    /\ invoked' = [invoked EXCEPT ![c] = @ + 1]
    /\ pc' = [pc EXCEPT ![c] = "calling"]
    /\ UNCHANGED << registry, jobs, args, ai_model, job, result, outcome, via, view,
                    provider, log, standalone >>

\* A chat that dispatches again after its try block has ended.
LeaveChatRetry(c) == [pc EXCEPT ![c] = "pending"]

\* chat is left by its return (line 110) or by the handler's raise (line 125):
\* nothing of the call runs afterwards.
LeaveChat(c) == [pc EXCEPT ![c] = "done"]

\* Lines 119-125, for an exception e raised inside the try block: the handler
\* saves the Error transition and raises e again; an exception it does not
\* catch leaves chat with the row untouched.
Handle(c, e) ==
    IF Catches(e)
    THEN /\ jobs' = [jobs EXCEPT ![JobPk(c)] = SaveError(c, @, e, ElapsedMs(c))]
         /\ outcome' = [outcome EXCEPT ![c] = Some(Raised(Reraise(e)))]
    ELSE /\ outcome' = [outcome EXCEPT ![c] = Some(Raised(e))]
         /\ UNCHANGED jobs

\* provider.chat returns res, then lines 94-117: duration, cost, the Completed
\* save and the returned response.  A save that raises leaves the row as it
\* was and enters the handler.
AdapterReturns(c, res) ==
    /\ pc[c] = "calling"
    /\ result' = [result EXCEPT ![c] = Some(Returned(res))]
    /\ LET model == AIModel[Val(ai_model[c])]
           cost  == calculate_cost(res.input_tokens, res.output_tokens,
                                   model.input_price_per_1m_tokens,
                                   model.output_price_per_1m_tokens)
       IN  IF CostsFits(cost)
           THEN /\ \E stored \in CostsStored(cost) :
                      jobs' = [jobs EXCEPT ![JobPk(c)] =
                                  SaveCompleted(c, @, res, stored, ElapsedMs(c))]
                /\ outcome' = [outcome EXCEPT ![c] =
                       Some(Returned(AIResponse(res, Val(ai_model[c]))))]
           ELSE \E e \in SaveErrors : Handle(c, e)
    /\ pc' = LeaveChat(c)
    /\ UNCHANGED << registry, args, ai_model, job, invoked, via, view, provider, log,
                    standalone >>

\* provider.chat raises e, then lines 119-125.
AdapterRaises(c, e) ==
    /\ pc[c] = "calling"
    /\ result' = [result EXCEPT ![c] = Some(Raised(e))]
    /\ Handle(c, e)
    /\ pc' = LeaveChat(c)
    /\ UNCHANGED << registry, args, ai_model, job, invoked, via, view, provider, log,
                    standalone >>

\* ------------------------------------------------------------------ agents

\* The agents of the page views (cms_views.py lines 212 and 263).
AgentIds == {"text-optimization-agent", "summarize-text-agent"}

\* The AgentDefinition the registry holds for agent_id: the vendor and model it
\* targets, its role (the system message) and its task instruction.  The
\* second agent has no role.
AgentDefinition(agent_id) ==
    [ agent_id |-> agent_id, provider |-> "OpenAI", model |-> "gpt-4o",
      role |-> IF agent_id = "text-optimization-agent" THEN "You are an editor." ELSE "",
      task |-> IF agent_id = "text-optimization-agent"
               THEN "Improve the text." ELSE "Summarize the text." ]

AgentNotFoundError(agent_id) ==
    Exc("AgentNotFoundError", "Agent '" \o agent_id \o "' not found in registry")

\* AgentRegistry.get_agent (registry.py lines 36-55).
get_agent(agent_id) ==
    IF agent_id \in agents
    THEN Returned(AgentDefinition(agent_id))
    ELSE Raised(AgentNotFoundError(agent_id))

\* AgentService._format_user_message for a str input and no context
\* (service.py lines 156-188).
format_user_message(agent, task_input) ==
    agent.task \o "\n" \o "\nInput:\n" \o task_input

\* AgentService._build_messages (service.py lines 120-154).
build_messages(agent, task_input) ==
    (IF agent.role # "" THEN << [role |-> "system", content |-> agent.role] >> ELSE << >>)
    \o << [role |-> "user", content |-> format_user_message(agent, task_input)] >>

\* The arguments run_agent calls router.chat with (service.py lines 88-95).
agent_chat_args(agent, task_input, user, client_ip) ==
    [ messages |-> build_messages(agent, task_input),
      model_id |-> Some(agent.model), provider_type |-> Some(agent.provider),
      user |-> user, client_ip |-> client_ip, agent |-> agent.agent_id,
      temperature |-> None, max_tokens |-> None ]

\* str.strip() on the texts of this model.
strip(s) ==
    CASE s = " Better summary.\n" -> "Better summary."
      [] s = "  " -> ""
      [] OTHER -> s

\* AgentRunResult.output_text (service.py line 104).
output_text(text) == IF text # "" THEN Some(strip(text)) ELSE None

\* The page views that run an agent: the agent, the page field they read, and
\* the messages of their error responses.
Views ==
    [ page_optimize_summary_view |->
          [ agent |-> "text-optimization-agent", reads |-> "summary",
            empty |-> "Zusammenfassung ist leer. Bitte fügen Sie Text hinzu, bevor Sie optimieren.",
            not_found |-> "Optimierungs-Agent nicht gefunden.",
            failed |-> "Optimierung fehlgeschlagen. Bitte versuchen Sie es später erneut." ],
      page_create_summary_view |->
          [ agent |-> "summarize-text-agent", reads |-> "content_html",
            empty |-> "Inhalt ist leer. Bitte fügen Sie Inhalt hinzu, bevor Sie eine Zusammenfassung erstellen.",
            not_found |-> "Zusammenfassungs-Agent nicht gefunden.",
            failed |-> "Erstellung fehlgeschlagen. Bitte versuchen Sie es später erneut." ] ]

ViewNames == DOMAIN Views

\* The requests the views are called with: whether the user holds the CMS
\* permission, the method, whether the page exists, and the text of the page
\* field the view reads.
Requests ==
    [ permitted : BOOLEAN, method : {"POST", "GET"}, page : BOOLEAN,
      text : {"Old summary", "  "}, user : {Some("editor")},
      client_ip : {Some("10.0.0.7")} ]

JsonResponse(status, body) == [status |-> status, body |-> body]

\* The view record of a call: how run_agent ended, how the view ended, and
\* the summary it saved on the page.
ViewRecord(name, req, ran, ended, saved) ==
    [ name |-> name, request |-> req, run_agent |-> ran, ended |-> ended,
      saved |-> saved ]

\* What the view does before it runs the agent (cms_views.py lines 195-207):
\* None when it goes on, or how it ended.
view_early(name, req) ==
    IF ~ req.permitted THEN Some(Raised(Exc("PermissionDenied", "")))
    ELSE IF req.method # "POST"
    THEN Some(Returned(JsonResponse(405, [error |-> "POST request required"])))
    ELSE IF ~ req.page THEN Some(Raised(Exc("Http404", "")))
    ELSE IF strip(req.text) = ""
    THEN Some(Returned(JsonResponse(400, [error |-> Views[name].empty])))
    ELSE None

\* The except AgentNotFoundError clause of the views (cms_views.py lines
\* 230-234 and 284-288).
view_not_found(name, agent_id) ==
    Returned(JsonResponse(500, [error |-> Views[name].not_found]))

\* A page view is called: the early returns, then run_agent (service.py lines
\* 77-99) up to the router's chat entry.  An agent the registry does not hold
\* makes get_agent raise; run_agent logs and raises it again, and the view's
\* except clause ends the request.
PageView(c, name, req) ==
    /\ pc[c] = "idle"
    /\ view[c] = None
    /\ \A d \in Calls : d < c => pc[d] # "idle"
    /\ LET agent_id == Views[name].agent
           found    == get_agent(agent_id)
       IN  IF view_early(name, req) # None
           THEN /\ view' = [view EXCEPT ![c] =
                       Some(ViewRecord(name, req, None, view_early(name, req), None))]
                /\ UNCHANGED << registry, jobs, pc, args, ai_model, job, result, outcome,
                                invoked, provider, log, standalone >>
           ELSE IF found.raised
           THEN /\ view' = [view EXCEPT ![c] =
                       Some(ViewRecord(name, req, Some(found),
                                       Some(view_not_found(name, agent_id)), None))]
                /\ log' = [log EXCEPT ![c] =
                       @ \o << LogRecord("error", << "Agent not found: ", agent_id >>),
                               LogRecord("error", << "Agent not found: ", found.exc.msg >>) >>]
                /\ UNCHANGED << registry, jobs, pc, args, ai_model, job, result, outcome,
                                invoked, provider, standalone >>
           ELSE /\ ChatEntry(c, agent_chat_args(found.value, req.text, req.user,
                                                req.client_ip))
                /\ view' = [view EXCEPT ![c] =
                       Some(ViewRecord(name, req, None, None, None))]
    /\ UNCHANGED via

\* The summary a view stores from the agent's output: page_optimize_summary_view
\* assigns output_text as it is (line 219), page_create_summary_view strips it
\* and turns None into '' (line 270).
view_summary(name, out) ==
    IF name = "page_optimize_summary_view" THEN out
    ELSE IF out # None THEN Some(strip(Val(out))) ELSE Some("")

\* router.chat has ended for a view's call: run_agent returns its result or
\* raises what chat raised (service.py lines 96-111), and the view saves the
\* summary and answers, or answers 500 for any Exception (cms_views.py lines
\* 218-240 and 269-295).  Page.summary is not nullable (models.py line 151).
ViewReturn(c) ==
    /\ pc[c] = "done"
    /\ view[c] # None
    /\ Val(view[c]).ended = None
    /\ LET v    == Val(view[c])
           o    == Val(outcome[c])
           out  == output_text(o.value.text)
           ran  == IF o.raised THEN Raised(o.exc)
                   ELSE Returned([output_text |-> out, model |-> o.value.model])
           summ == view_summary(v.name, out)
           fail == Returned(JsonResponse(500, [error |-> Views[v.name].failed]))
       IN  view' = [view EXCEPT ![c] = Some(
               IF o.raised
               THEN ViewRecord(v.name, v.request, Some(ran),
                               Some(IF IsException(o.exc) THEN fail ELSE Raised(o.exc)), None)
               ELSE IF summ = None
               THEN ViewRecord(v.name, v.request, Some(ran), Some(fail), None)
               ELSE ViewRecord(v.name, v.request, Some(ran),
                               Some(Returned(JsonResponse(200, [success |-> Val(summ)]))),
                               summ))]
    /\ UNCHANGED << registry, jobs, pc, args, ai_model, job, result, outcome, invoked,
                    via, provider, log, standalone >>

\* ------------------------------------------------------------------ specification

Registries == [ProviderIds -> BOOLEAN] \X [ModelIds -> BOOLEAN]

InitCalls ==
    /\ jobs = << >>
    /\ pc = [c \in Calls |-> "idle"]
    /\ args = [c \in Calls |-> None]
    /\ ai_model = [c \in Calls |-> None]
    /\ job = [c \in Calls |-> None]
    /\ result = [c \in Calls |-> None]
    /\ outcome = [c \in Calls |-> None]
    /\ invoked = [c \in Calls |-> 0]
    /\ resolution = None
    /\ costing = None
    /\ via = [c \in Calls |-> None]
    /\ adapter_run = None
    /\ provider = [c \in Calls |-> None]
    /\ log = [c \in Calls |-> << >>]
    /\ view = [c \in Calls |-> None]

\* The sets of active models of the registries the chat calls run against
\* (every provider active): no model, every model, and a single model of each
\* kind of price and vendor.
ChatRegistries == { {}, ModelIds, {2}, {3}, {4}, {5} }

\* The credentials as the AIProvider rows store them.
StoredKeys == [p \in ProviderIds |-> AIProvider[p].api_key]

Init ==
    /\ is_active = [p \in ProviderIds |-> TRUE]
    /\ \E on \in ChatRegistries : active = [m \in ModelIds |-> m \in on]
    /\ api_key = StoredKeys
    /\ agents = AgentIds
    /\ InitCalls

\* A stand-alone call of _resolve_model with any hints.
ResolveModel(model_id, provider_type) ==
    /\ \E m \in resolve_model(model_id, provider_type) :
          resolution' = Some([model_id |-> model_id, provider_type |-> provider_type,
                              result |-> resolve_result(m),
                              log |-> resolve_log(model_id, provider_type, m)])
    /\ UNCHANGED << registry, calls, costing, adapter_run >>

InitResolve ==
    /\ \E r \in Registries : is_active = r[1] /\ active = r[2]
    /\ api_key = StoredKeys
    /\ agents = AgentIds
    /\ InitCalls

NextResolve ==
    \E model_id \in ModelIdHints, provider_type \in ProviderTypeHints :
        ResolveModel(model_id, provider_type)

SpecResolve == InitResolve /\ [][NextResolve]_vars

\* The token counts and unit prices calculate_cost is applied to: missing,
\* zero, and the counts and prices of the pricing tests (tests.py 829-845).
TokenCounts == {None, Some(0), Some(5), Some(10), Some(500), Some(1000)}

Prices == {None, Some(Dec(0, 0)), Some(Dec(1, -3)), Some(Dec(50, -1)), Some(Dec(150, -1))}

\* A stand-alone call of calculate_cost.
CalculateCost(input_tokens, output_tokens, input_price, output_price) ==
    /\ costing' = Some([input_tokens |-> input_tokens, output_tokens |-> output_tokens,
                        input_price |-> input_price, output_price |-> output_price,
                        cost |-> calculate_cost(input_tokens, output_tokens,
                                                input_price, output_price)])
    /\ UNCHANGED << registry, calls, resolution, adapter_run >>

NextCost ==
    \E input_tokens \in TokenCounts, output_tokens \in TokenCounts,
       input_price \in Prices, output_price \in Prices :
        CalculateCost(input_tokens, output_tokens, input_price, output_price)

\* The stand-alone calls of calculate_cost and of the adapters read no table:
\* one registry is enough.
InitStandalone ==
    /\ is_active = [p \in ProviderIds |-> TRUE]
    /\ active = [m \in ModelIds |-> TRUE]
    /\ api_key = StoredKeys
    /\ agents = AgentIds
    /\ InitCalls

SpecCost == InitStandalone /\ [][NextCost]_vars

\* The model_ids registered for a vendor type.
ModelIdsOf(provider_type) ==
    {AIModel[m].model_id :
        m \in {x \in ModelIds : AIProvider[AIModel[x].provider].provider_type = provider_type}}

\* A stand-alone OpenAIProvider.chat while the SDK does v.
OpenAIChat(messages, model_id, temperature, max_tokens, v) ==
    /\ adapter_run = None
    /\ adapter_run' = Some(
          [ cls |-> "OpenAI", messages |-> messages, model_id |-> model_id,
            temperature |-> temperature, max_tokens |-> max_tokens, vendor |-> v,
            sent |-> IF v.kind = "import_error" THEN None
                     ELSE Some(openai_call_kwargs(messages, model_id, temperature,
                                                  max_tokens)),
            result |-> openai_chat(v) ])
    /\ UNCHANGED << registry, calls, resolution, costing >>

\* A stand-alone GeminiProvider.chat while the SDK does v.
GeminiChat(messages, model_id, temperature, max_tokens, v) ==
    /\ adapter_run = None
    /\ adapter_run' = Some(
          [ cls |-> "Gemini", messages |-> messages, model_id |-> model_id,
            temperature |-> temperature, max_tokens |-> max_tokens, vendor |-> v,
            converted |-> IF v.kind = "import_error" THEN None
                          ELSE Some(convert_messages(messages)),
            sent |-> IF v.kind = "import_error" THEN None
                     ELSE Some(gemini_call_kwargs(messages, model_id, temperature,
                                                  max_tokens)),
            result |-> gemini_chat(v) ])
    /\ UNCHANGED << registry, calls, resolution, costing >>

NextAdapter ==
    /\ adapter_run = None
    /\ \E messages \in MessageLists, o \in SamplingOptions :
          \/ \E model_id \in ModelIdsOf("OpenAI"), v \in OpenAIVendor :
                OpenAIChat(messages, model_id, o.temperature, o.max_tokens, v)
          \/ \E model_id \in ModelIdsOf("Gemini"), v \in GeminiVendor :
                GeminiChat(messages, model_id, o.temperature, o.max_tokens, v)

SpecAdapter == InitStandalone /\ [][NextAdapter]_vars

\* One generate call, then one direct chat call, each run to its end.
NextGenerate ==
    \/ \E g \in GenerateArgs(1) : Generate(1, g)
    \/ \E a \in DirectChatArgs(2) : Chat(2, a)
    \/ \E c \in {1, 2} :
          \/ Create(c)
          \/ Invoke(c)
          \/ \E res \in ProviderResponses : AdapterReturns(c, res)
          \/ \E e \in AdapterErrors : AdapterRaises(c, e)

SpecGenerate == Init /\ [][NextGenerate]_vars

\* The credentials after every key has been rotated.
RotatedKeys == [p \in ProviderIds |-> "sk-rotated"]

\* Registries that differ only in the credentials of their providers.
InitSecret ==
    /\ is_active = [p \in ProviderIds |-> TRUE]
    /\ \E on \in ChatRegistries : active = [m \in ModelIds |-> m \in on]
    /\ api_key \in {StoredKeys, RotatedKeys}
    /\ agents = AgentIds
    /\ InitCalls

\* Two chat calls, under either set of credentials.
NextSecret ==
    \E c \in {1, 2} :
        \/ \E a \in ChatArgs(c) : Chat(c, a)
        \/ Create(c)
        \/ Invoke(c)
        \/ \E res \in ProviderResponses : AdapterReturns(c, res)
        \/ \E e \in AdapterErrors : AdapterRaises(c, e)

SpecSecret == InitSecret /\ [][NextSecret]_vars

\* What the adapter returns to an agent's call: the responses of the chat
\* calls, a text with surrounding whitespace, and an empty text.
AgentResponses ==
    ProviderResponses \cup
    { [text |-> t, raw |-> "raw", input_tokens |-> Some(10), output_tokens |-> Some(5)] :
        t \in {" Better summary.\n", ""} }

\* The page views run against every catalog of agents.
InitAgent ==
    /\ is_active = [p \in ProviderIds |-> TRUE]
    /\ \E ms \in ChatRegistries : active = [m \in ModelIds |-> m \in ms]
    /\ api_key = StoredKeys
    /\ agents \in SUBSET AgentIds
    /\ InitCalls

NextAgent ==
    \E c \in {1} :
        \/ \E name \in ViewNames, req \in Requests : PageView(c, name, req)
        \/ Create(c)
        \/ Invoke(c)
        \/ \E res \in AgentResponses : AdapterReturns(c, res)
        \/ \E e \in AdapterErrors : AdapterRaises(c, e)
        \/ ViewReturn(c)

SpecAgent == InitAgent /\ [][NextAgent]_vars

Next ==
    \E c \in Calls :
        \/ \E a \in ChatArgs(c) : Chat(c, a)
        \/ Create(c)
        \/ Invoke(c)
        \/ \E res \in ProviderResponses : AdapterReturns(c, res)
        \/ \E e \in AdapterErrors : AdapterRaises(c, e)

Spec == Init /\ [][Next]_vars

\* ------------------------------------------------------------------ properties

Done(c) == pc[c] = "done"

\* The rows opened by call c.
RowsOf(c) == {i \in DOMAIN jobs : jobs[i].call = c}

AdapterReturned(c) == result[c] # None /\ ~Val(result[c]).raised

AdapterRaised(c) == result[c] # None /\ Val(result[c]).raised

Terminal == {"Completed", "Error"}

\* Whether the adapter of call c reported both token counts and the model the
\* call resolved has both prices.
FullyPriced(c) ==
    /\ Val(result[c]).value.input_tokens # None
    /\ Val(result[c]).value.output_tokens # None
    /\ AIModel[Val(ai_model[c])].input_price_per_1m_tokens # None
    /\ AIModel[Val(ai_model[c])].output_price_per_1m_tokens # None

\* The cost of call c in dollars is below 10^(max_digits - decimal_places).
CostBelowColumnLimit(c) ==
    LET t == Val(result[c]).value
        m == AIModel[Val(ai_model[c])]
        i == DecMul(DecDiv(Decimal(Val(t.input_tokens)), Decimal(1000000)),
                    Val(m.input_price_per_1m_tokens))
        o == DecMul(DecDiv(Decimal(Val(t.output_tokens)), Decimal(1000000)),
                    Val(m.output_price_per_1m_tokens))
        d == DecAdd(i, o)
    IN  d.c = 0 \/ Digits(d.c) + d.e <= CostsMaxDigits - CostsDecimalPlaces

C2_AsStated ==
    \A c \in Calls :
        (Done(c) /\ AdapterRaised(c)) =>
            /\ Cardinality(RowsOf(c)) = 1
            /\ \A i \in RowsOf(c) :
                  /\ jobs[i].status = "Error"
                  /\ jobs[i].error_message = Val(result[c]).exc.msg
                  /\ jobs[i].error_message # ""

\* C3: when the adapter raised E, chat ends by raising that same E: it returns
\* no response and raises no other error.
C3_SameException ==
    \A c \in Calls :
        (Done(c) /\ AdapterRaised(c)) =>
            outcome[c] = Some(Raised(Val(result[c]).exc))

C3_Witness ==
    \E c \in Calls :
        /\ Done(c) /\ AdapterRaised(c)
        /\ Val(result[c]).exc = Exc("RuntimeError", "API error")
        /\ outcome[c] = Some(Raised(Exc("RuntimeError", "API error")))

\* C4 as stated: once a chat call has exited, by returning or by raising, the
\* row it opened is Completed or Error, never Pending.
C4_AsStated ==
    \A c \in Calls :
        Done(c) => \A i \in RowsOf(c) : jobs[i].status \in Terminal

\* C5: rows are never removed, and the status of a row changes only from
\* Pending to Completed or from Pending to Error: a Completed or Error row
\* keeps its status in every step.
C5_StatusEdges ==
    [][ /\ Len(jobs') >= Len(jobs)
        /\ \A i \in DOMAIN jobs :
              \/ jobs'[i].status = jobs[i].status
              \/ jobs[i].status = "Pending" /\ jobs'[i].status \in Terminal ]_vars

C5_Witness ==
    /\ \A c \in Calls : Done(c)
    /\ \E i, k \in DOMAIN jobs :
          /\ i < k
          /\ jobs[i].status = "Completed"
          /\ jobs[k].status = "Error"
          /\ jobs[i].call > jobs[k].call

\* C6 as stated: on the row a chat call opened exactly one terminal update is
\* persisted during the call: never none, never two.
C6_AsStated ==
    \A c \in Calls :
        Done(c) =>
            \A i \in RowsOf(c) :
                /\ Len(jobs[i].updates) = 1
                /\ jobs[i].updates[1].status \in Terminal

\* C7: whenever the adapter's chat of a call has been invoked, the row of that
\* call exists, and while the adapter call is running that row is Pending.
C7_PendingBeforeAdapter ==
    \A c \in Calls :
        /\ invoked[c] > 0 => Cardinality(RowsOf(c)) = 1
        /\ pc[c] = "calling" => \A i \in RowsOf(c) : jobs[i].status = "Pending"

C7_Witness ==
    \E c \in Calls :
        /\ pc[c] = "calling"
        /\ \E i \in RowsOf(c) : jobs[i].status = "Pending"

\* Whether the registry leaves the hints of call c with no model, or with a
\* model of a vendor type that _PROVIDER_CLASSES has no adapter for.
NoModelFor(c) ==
    /\ args[c] # None
    /\ LET a == Val(args[c])
           v == IF Truthy(a.provider_type) THEN {Val(a.provider_type)}
                ELSE IF \E m \in ModelIds :
                          /\ active[m] /\ is_active[AIModel[m].provider]
                          /\ AIProvider[AIModel[m].provider].provider_type = "OpenAI"
                THEN {"OpenAI"}
                ELSE IF \E m \in ModelIds :
                          /\ active[m] /\ is_active[AIModel[m].provider]
                          /\ AIProvider[AIModel[m].provider].provider_type = "Gemini"
                THEN {"Gemini"}
                ELSE ProviderType
       IN  ~ \E m \in ModelIds :
               /\ active[m] /\ is_active[AIModel[m].provider]
               /\ AIProvider[AIModel[m].provider].provider_type \in v

UnsupportedVendorFor(c) ==
    /\ args[c] # None
    /\ ~NoModelFor(c)
    /\ LET a == Val(args[c])
       IN  \/ Truthy(a.provider_type) /\ Val(a.provider_type) \notin {"OpenAI", "Gemini"}
           \/ /\ ~Truthy(a.provider_type)
              /\ ~ \E m \in ModelIds :
                      /\ active[m] /\ is_active[AIModel[m].provider]
                      /\ AIProvider[AIModel[m].provider].provider_type
                            \in {"OpenAI", "Gemini"}

\* C8: a chat call that fails with a configuration error (no active model for
\* its hints, or a resolved vendor type without an adapter) opens no row,
\* updates no row and never invokes an adapter; it ends raising
\* ServiceNotConfigured.
C8_ConfigErrorNoJob ==
    \A c \in Calls :
        (NoModelFor(c) \/ UnsupportedVendorFor(c)) =>
            /\ RowsOf(c) = {}
            /\ invoked[c] = 0
            /\ \A i \in DOMAIN jobs :
                  \A u \in DOMAIN jobs[i].updates : jobs[i].updates[u].by # c
            /\ Done(c)
            /\ Val(outcome[c]).raised
            /\ Val(outcome[c]).exc.cls = "ServiceNotConfigured"

C8_Witness ==
    \E c, d \in Calls :
        /\ Done(c) /\ UnsupportedVendorFor(c)
        /\ Val(outcome[c]).raised
        /\ RowsOf(c) = {} /\ invoked[c] = 0
        /\ RowsOf(d) # {}

\* C9 as stated: when the resolved vendor type has no registered adapter, chat
\* raises an error of another kind than the error raised when no model can be
\* resolved.
C9_AsStated ==
    \A c \in Calls :
        (Done(c) /\ UnsupportedVendorFor(c)) =>
            /\ Val(outcome[c]).raised
            /\ Val(outcome[c]).exc.cls # NoActiveModelError.cls

\* C10: when both hints are given and an active model with that model_id
\* exists under an active provider of that vendor type, _resolve_model returns
\* a model with that model_id under a provider of that vendor type.
C10_ExactMatch ==
    resolution # None =>
        LET r == Val(resolution)
        IN  ( /\ r.model_id # None
              /\ r.provider_type # None
              /\ \E m \in ModelIds :
                    /\ active[m] /\ is_active[AIModel[m].provider]
                    /\ AIModel[m].model_id = Val(r.model_id)
                    /\ AIProvider[AIModel[m].provider].provider_type = Val(r.provider_type) )
            => /\ ~r.result.raised
               /\ AIModel[r.result.value[1]].model_id = Val(r.model_id)
               /\ AIProvider[r.result.value[2]].provider_type = Val(r.provider_type)
               /\ AIModel[r.result.value[1]].provider = r.result.value[2]

C10_Witness ==
    /\ resolution # None
    /\ Val(resolution).model_id = Some("gpt-4o-mini")
    /\ Val(resolution).provider_type = Some("OpenAI")
    /\ \A m \in ModelIds : active[m]
    /\ \A q \in ProviderIds : is_active[q]
    /\ ~Val(resolution).result.raised
    /\ Val(resolution).result.value = <<3, 1>>

\* A model row that is active under an active provider.
Live(m) == active[m] /\ is_active[AIModel[m].provider]

VendorOf(m) == AIProvider[AIModel[m].provider].provider_type

LiveModels == {m \in ModelIds : Live(m)}

LiveOf(provider_type) == {m \in LiveModels : VendorOf(m) = provider_type}

\* The rows of S that no row of S precedes in the registry's order.
Earliest(S) == {m \in S : \A y \in S : ~KeyLess(OrderKey(y), OrderKey(m))}

\* C11: when both hints are given, no active model under an active provider
\* has that vendor type and that model_id, and the vendor type has an active
\* model under an active provider, _resolve_model does not raise: it returns,
\* with its provider, an active model of that vendor type that no other active
\* model of that vendor type precedes in the registry's order.
C11_DegradedMatch ==
    resolution # None =>
        LET r == Val(resolution)
        IN  ( /\ r.model_id # None
              /\ r.provider_type # None
              /\ ~\E m \in LiveOf(Val(r.provider_type)) :
                     AIModel[m].model_id = Val(r.model_id)
              /\ LiveOf(Val(r.provider_type)) # {} )
            => /\ ~r.result.raised
               /\ r.result.value[1] \in Earliest(LiveOf(Val(r.provider_type)))
               /\ r.result.value[2] = AIModel[r.result.value[1]].provider

C11_Witness ==
    /\ resolution # None
    /\ Val(resolution).model_id = Some("nonexistent-model")
    /\ Val(resolution).provider_type = Some("OpenAI")
    /\ ~Live(1) /\ Live(2) /\ Live(3) /\ Live(4)
    /\ ~Val(resolution).result.raised
    /\ Val(resolution).result.value = <<2, 1>>

\* C12: _resolve_model raises its no-active-model error exactly when no
\* candidate is left: without a vendor hint, iff no model is active under an
\* active provider; with a vendor hint, with or without a model_id, iff no
\* model of that vendor type is active under an active provider.  With a
\* vendor hint it never returns a model of another vendor type.
C12_RaisesIffNoCandidate ==
    resolution # None =>
        LET r == Val(resolution)
        IN  /\ r.result.raised => r.result.exc = NoActiveModelError
            /\ r.provider_type = None => (r.result.raised <=> LiveModels = {})
            /\ r.provider_type # None =>
                  /\ r.result.raised <=> LiveOf(Val(r.provider_type)) = {}
                  /\ ~r.result.raised =>
                        VendorOf(r.result.value[1]) = Val(r.provider_type)

C12_Witness ==
    /\ resolution # None
    /\ Val(resolution).provider_type = Some("Claude")
    /\ Val(resolution).model_id = Some("claude-sonnet")
    /\ active[5] /\ ~is_active[3]
    /\ Live(1) /\ Live(4)
    /\ Val(resolution).result.raised
    /\ Val(resolution).result.exc = NoActiveModelError

\* C13: without hints, _resolve_model returns an earliest active OpenAI model
\* when one exists, else an earliest active Gemini model when one exists, else
\* an earliest of the active models that are left.
C13_DefaultOrder ==
    resolution # None =>
        LET r == Val(resolution)
            preferred ==
                IF LiveOf("OpenAI") # {} THEN LiveOf("OpenAI")
                ELSE IF LiveOf("Gemini") # {} THEN LiveOf("Gemini")
                ELSE LiveModels
        IN  (r.model_id = None /\ r.provider_type = None /\ LiveModels # {})
            => /\ ~r.result.raised
               /\ r.result.value[1] \in Earliest(preferred)

C13_Witness ==
    /\ resolution # None
    /\ Val(resolution).model_id = None
    /\ Val(resolution).provider_type = None
    /\ LiveOf("OpenAI") = {}
    /\ Live(4) /\ Live(5)
    /\ ~Val(resolution).result.raised
    /\ Val(resolution).result.value = <<4, 2>>

\* C14: whatever the hints and the registry, a model _resolve_model returns is
\* active, the provider returned with it is the model's provider, and that
\* provider is active.
C14_OnlyActive ==
    resolution # None =>
        LET r == Val(resolution)
        IN  ~r.result.raised =>
               /\ active[r.result.value[1]]
               /\ r.result.value[2] = AIModel[r.result.value[1]].provider
               /\ is_active[r.result.value[2]]

C14_Witness ==
    /\ resolution # None
    /\ Val(resolution).model_id = Some("gpt-4o")
    /\ Val(resolution).provider_type = None
    /\ active[1] /\ ~is_active[1]
    /\ ~active[4] /\ is_active[2]
    /\ ~Val(resolution).result.raised
    /\ Val(resolution).result.value = <<5, 3>>

\* C15: the response of a chat call that returns carries the model_id and the
\* vendor type of the model the call resolved, which are those of the model
\* and provider on the call's row, whatever the hints were; its text and token
\* counts are those the adapter returned.
C15_ResolvedIdentity ==
    \A c \in Calls :
        (Done(c) /\ ~Val(outcome[c]).raised) =>
            LET resp == Val(outcome[c]).value
                res  == Val(result[c]).value
            IN  /\ resp.model = AIModel[Val(ai_model[c])].model_id
                /\ resp.provider = VendorOf(Val(ai_model[c]))
                /\ \E i \in DOMAIN jobs :
                      /\ RowsOf(c) = {i}
                      /\ jobs[i].model = ai_model[c]
                      /\ jobs[i].provider = Some(AIModel[Val(ai_model[c])].provider)
                /\ resp.text = res.text
                /\ resp.input_tokens = res.input_tokens
                /\ resp.output_tokens = res.output_tokens

C15_Witness ==
    \E c \in Calls :
        /\ Done(c) /\ ~Val(outcome[c]).raised
        /\ Val(args[c]).model_id = Some("nonexistent-model")
        /\ Val(args[c]).provider_type = Some("Gemini")
        /\ Val(outcome[c]).value.model = "gemini-flash"
        /\ Val(outcome[c]).value.provider = "Gemini"
        /\ Val(outcome[c]).value.input_tokens = Some(10)
        /\ \E i \in RowsOf(c) : jobs[i].model = Some(4) /\ jobs[i].status = "Completed"

\* d * 1000 for a decimal d with at most 3 decimal places, as an integer.
Milli(d) == d.c * Pow10(d.e + 3)

\* d * 10^9 for a decimal d with at most 9 decimal places, as an integer.
Nano(d) == d.c * Pow10(d.e + 9)

\* C16: calculate_cost returns None exactly when one of its four inputs is
\* None, a zero being a value like any other; otherwise the cost it returns is
\* input_tokens / 10^6 * input_price + output_tokens / 10^6 * output_price
\* with no rounding (compared here in integers, in units of 10^-9).
C16_CostFormula ==
    costing # None =>
        LET k == Val(costing)
        IN  /\ k.cost = None <=>
                  \/ k.input_tokens = None \/ k.output_tokens = None
                  \/ k.input_price = None \/ k.output_price = None
            /\ k.cost # None =>
                  /\ Val(k.cost).e >= -9
                  /\ Nano(Val(k.cost)) =
                        Val(k.input_tokens) * Milli(Val(k.input_price))
                        + Val(k.output_tokens) * Milli(Val(k.output_price))

C16_Witness ==
    /\ costing # None
    /\ Val(costing).input_tokens = Some(0)
    /\ Val(costing).output_tokens = Some(500)
    /\ Val(costing).input_price = Some(Dec(50, -1))
    /\ Val(costing).output_price = Some(Dec(150, -1))
    /\ Val(costing).cost = Some(Dec(75, -4))

\* C17 as stated: the costs of a Completed row equal calculate_cost of the
\* token counts the adapter returned and the unit prices of the model on the
\* row.
C17_AsStated ==
    \A c \in Calls :
        (Done(c) /\ AdapterReturned(c)) =>
            \A i \in RowsOf(c) :
                jobs[i].status = "Completed" =>
                    jobs[i].costs =
                        calculate_cost(
                            Val(result[c]).value.input_tokens,
                            Val(result[c]).value.output_tokens,
                            AIModel[Val(jobs[i].model)].input_price_per_1m_tokens,
                            AIModel[Val(jobs[i].model)].output_price_per_1m_tokens)

\* C18: two chat calls with identical arguments, against an unchanged
\* registry, each open a row of their own, and when the adapter returns the
\* same response to both, each call has dispatched the adapter once, the two
\* rows are distinct, and every response returned carries the text of that
\* adapter response.
C18_NoDeduplication ==
    \A c, d \in Calls :
        (c # d /\ args[c] # None /\ args[c] = args[d]) =>
            /\ (job[c] # None /\ job[d] # None) =>
                  /\ job[c] # job[d]
                  /\ RowsOf(c) = {Val(job[c])}
                  /\ RowsOf(d) = {Val(job[d])}
            /\ ( /\ Done(c) /\ Done(d)
                 /\ AdapterReturned(c) /\ AdapterReturned(d)
                 /\ result[c] = result[d] ) =>
                  /\ invoked[c] = 1 /\ invoked[d] = 1
                  /\ Cardinality(RowsOf(c) \cup RowsOf(d)) = 2
                  /\ \A x \in {c, d} :
                        ~Val(outcome[x]).raised =>
                            Val(outcome[x]).value.text = Val(result[c]).value.text

C18_Witness ==
    \E c, d \in Calls :
        /\ c # d /\ args[c] # None /\ args[c] = args[d]
        /\ Done(c) /\ Done(d)
        /\ AdapterReturned(c) /\ result[c] = result[d]
        /\ ~Val(outcome[c]).raised /\ ~Val(outcome[d]).raised
        /\ Val(outcome[c]).value.text = "Hello, world!"
        /\ Val(outcome[d]).value.text = "Hello, world!"
        /\ Len(jobs) = 2
        /\ \A i \in DOMAIN jobs : jobs[i].status = "Completed"

\* The arguments of provider.chat in call c (router.py lines 86-93).
AdapterCall(c) ==
    [ messages |-> Val(args[c]).messages,
      model_id |-> AIModel[Val(ai_model[c])].model_id,
      temperature |-> Val(args[c]).temperature,
      max_tokens |-> Val(args[c]).max_tokens ]

\* The fields of a row that do not depend on which call wrote it or when.
RowEffects(row) ==
    [ agent |-> row.agent, user |-> row.user, client_ip |-> row.client_ip,
      provider |-> row.provider, model |-> row.model, status |-> row.status,
      input_tokens |-> row.input_tokens, output_tokens |-> row.output_tokens ]

\* C19: a generate call enters chat with one user message whose content is
\* the prompt and with every option as given; and it ends as the direct chat
\* call with those arguments ends: given the same resolved model and the same
\* adapter outcome, the same adapter call, the same row effects, and the same
\* response or the same error.
C19_GenerateIsChat ==
    /\ \A c \in Calls :
          via[c] # None =>
              LET g == Val(via[c])
              IN  args[c] = Some(
                    [ messages |-> << [role |-> "user", content |-> g.prompt] >>,
                      model_id |-> g.model_id, provider_type |-> g.provider_type,
                      user |-> g.user, client_ip |-> g.client_ip, agent |-> g.agent,
                      temperature |-> g.temperature, max_tokens |-> g.max_tokens ])
    /\ \A c, d \in Calls :
          ( /\ via[c] # None /\ via[d] = None
            /\ args[d] # None
            /\ Val(args[d]).messages =
                  << [role |-> "user", content |-> Val(via[c]).prompt] >>
            /\ \A f \in DOMAIN Val(via[c]) \ {"prompt"} :
                  Val(args[d])[f] = Val(via[c])[f]
            /\ Done(c) /\ Done(d)
            /\ ai_model[c] = ai_model[d]
            /\ result[c] = result[d] ) =>
              /\ invoked[c] = invoked[d]
              /\ ai_model[c] # None => AdapterCall(c) = AdapterCall(d)
              /\ Cardinality(RowsOf(c)) = Cardinality(RowsOf(d))
              /\ \A i \in RowsOf(c), j \in RowsOf(d) :
                    RowEffects(jobs[i]) = RowEffects(jobs[j])
              /\ Val(outcome[c]).raised = Val(outcome[d]).raised
              /\ (~Val(outcome[c]).raised \/ result[c] = None \/ AdapterRaised(c)) =>
                    outcome[c] = outcome[d]

C19_Witness ==
    \E c, d \in Calls :
        /\ via[c] # None /\ via[d] = None
        /\ Val(via[c]).prompt = "Say hello."
        /\ Val(via[c]).temperature = Some("0.7")
        /\ args[c] = args[d]
        /\ Done(c) /\ Done(d)
        /\ ai_model[c] = ai_model[d]
        /\ ~Val(outcome[c]).raised /\ outcome[c] = outcome[d]
        /\ Cardinality(RowsOf(c)) = 1 /\ Cardinality(RowsOf(d)) = 1

\* Whether the SDK call of the stand-alone adapter call failed, or answered
\* without a usable text.
NoUsableText(r) ==
    \/ r.vendor.kind # "response"
    \/ r.cls = "OpenAI" /\ r.vendor.choices = << >>
    \/ r.cls = "OpenAI" /\ r.vendor.choices # << >>
          /\ r.vendor.choices[1].content \in {None, Some("")}
    \/ r.cls = "Gemini" /\ r.vendor.text \in {None, Some("")}

\* C20 as stated: when the vendor call failed or its response carries no
\* usable text, the adapter's chat raises; it does not return a response.
C20_AsStated ==
    adapter_run # None =>
        (NoUsableText(Val(adapter_run)) => Val(adapter_run).result.raised)

C22_OwnRecordOnly ==
    /\ \A c \in Calls : Cardinality(RowsOf(c)) <= 1
    /\ \A i \in DOMAIN jobs :
          LET o == jobs[i].call
          IN  /\ job[o] = Some(i)
              /\ \A u \in DOMAIN jobs[i].updates : jobs[i].updates[u].by = o
              /\ jobs[i].status = "Pending" => jobs[i].updates = << >>
              /\ jobs[i].status = "Completed" =>
                    /\ AdapterReturned(o)
                    /\ Done(o) /\ ~Val(outcome[o]).raised
              /\ jobs[i].status = "Error" =>
                    /\ result[o] # None
                    /\ Done(o) /\ Val(outcome[o]).raised

\* Call 2 started after call 1 and has completed its row while call 1 is
\* still inside the adapter with its row Pending.
C22_Witness ==
    /\ pc[1] = "calling" /\ pc[2] = "done"
    /\ Len(jobs) = 2
    /\ jobs[1].call = 1 /\ jobs[1].status = "Pending"
    /\ jobs[2].call = 2 /\ jobs[2].status = "Completed"
    /\ jobs[2].updates = << [by |-> 2, status |-> "Completed"] >>

\* The view calls that reached run_agent with an agent the catalog lacks.
AgentAbsent(c) ==
    /\ view[c] # None
    /\ view_early(Val(view[c]).name, Val(view[c]).request) = None
    /\ Views[Val(view[c]).name].agent \notin agents

\* C23: looking up an agent id that is absent from the catalog raises
\* AgentNotFoundError, and the error propagates untouched through run_agent and
\* through the page views that wrap it, with the router never invoked and no
\* job row created.
C23_AsStated ==
    \A c \in Calls :
        AgentAbsent(c) =>
            LET v == Val(view[c])
                e == AgentNotFoundError(Views[v.name].agent)
            IN  /\ v.run_agent = Some(Raised(e))
                /\ v.ended # None
                /\ Val(v.ended).raised
                /\ Val(v.ended).exc = e
                /\ args[c] = None
                /\ pc[c] = "idle"
                /\ invoked[c] = 0
                /\ \A k \in 1..Len(jobs) : jobs[k].call # c

\* C24: with only the vendor type given, _resolve_model returns an active model
\* of that vendor that no other precedes in the registry's order, and the
\* result is determined by the registry's contents: no other result is
\* possible for the same hints and the same registry, also when several active
\* models of the vendor tie on the ordering.
C24_AsStated ==
    resolution # None =>
        LET r == Val(resolution)
        IN  (r.model_id = None /\ r.provider_type # None)
            => /\ LiveOf(Val(r.provider_type)) # {} =>
                      /\ ~r.result.raised
                      /\ r.result.value[1] \in Earliest(LiveOf(Val(r.provider_type)))
               /\ \A m \in resolve_model(r.model_id, r.provider_type) :
                      resolve_result(m).raised = r.result.raised /\
                      (~r.result.raised => resolve_result(m).value = r.result.value)

\* The role and the content of the i-th message as the adapter reads them.
RoleAt(messages, i) == IF "role" \in DOMAIN messages[i] THEN messages[i].role ELSE "user"

ContentAt(messages, i) ==
    IF "content" \in DOMAIN messages[i] THEN messages[i].content ELSE ""

SystemAt(messages) == {i \in DOMAIN messages : RoleAt(messages, i) = "system"}

\* The contents of the system messages among the first n messages, each on a
\* line of its own.
RECURSIVE SystemText(_, _)
SystemText(messages, n) ==
    IF n = 0 THEN ""
    ELSE IF n \notin SystemAt(messages) THEN SystemText(messages, n - 1)
    ELSE IF SystemAt(messages) \cap (1..(n - 1)) = {} THEN ContentAt(messages, n)
    ELSE SystemText(messages, n - 1) \o "\n" \o ContentAt(messages, n)

\* C25: for every message list, _convert_messages takes all system messages
\* out of the conversation and joins their contents, in their order, into the
\* one system instruction, which is None when there is no system message;
\* every other message is kept, in its relative order, with its content
\* unchanged and its role renamed: assistant to model, user to user.
C25_ConvertMessages ==
    (adapter_run # None /\ Val(adapter_run).cls = "Gemini"
        /\ Val(adapter_run).converted # None) =>
        LET messages == Val(adapter_run).messages
            conv     == Val(Val(adapter_run).converted)
            other    == DOMAIN messages \ SystemAt(messages)
            Place(i) == Cardinality({j \in other : j <= i})
        IN  /\ (conv[1] = None) <=> (SystemAt(messages) = {})
            /\ conv[1] # None => Val(conv[1]) = SystemText(messages, Len(messages))
            /\ Len(conv[2]) = Cardinality(other)
            /\ \A i \in other :
                  /\ conv[2][Place(i)].parts = << [text |-> ContentAt(messages, i)] >>
                  /\ RoleAt(messages, i) = "assistant" => conv[2][Place(i)].role = "model"
                  /\ RoleAt(messages, i) = "user" => conv[2][Place(i)].role = "user"

C25_Witness ==
    /\ adapter_run # None
    /\ Val(adapter_run).cls = "Gemini"
    /\ Val(adapter_run).messages =
           << [role |-> "system", content |-> "Be brief."],
              [role |-> "assistant", content |-> "Hello"],
              [role |-> "system", content |-> ""] >>
    /\ Val(adapter_run).converted =
           Some(<< Some("Be brief.\n"),
                   << [role |-> "model", parts |-> << [text |-> "Hello"] >>] >> >>)

\* C26: there is no retry inside chat.  Within one call the adapter's chat is
\* invoked at most once, and once the adapter has raised, the call is over
\* with the error raised: no step dispatches again, resolves again or builds
\* another adapter for it.
C26_NoRetry ==
    /\ [](\A c \in Calls :
            /\ invoked[c] <= 1
            /\ AdapterRaised(c) => Done(c) /\ outcome[c] # None /\ Val(outcome[c]).raised)
    /\ [][\A c \in Calls :
            AdapterRaised(c) =>
                /\ invoked'[c] = invoked[c]
                /\ pc'[c] = pc[c]
                /\ ai_model'[c] = ai_model[c]
                /\ provider'[c] = provider[c]
                /\ outcome'[c] = outcome[c]]_vars

C26_Witness ==
    /\ AdapterRaised(1)
    /\ invoked[1] = 1
    /\ Val(outcome[1]) = Raised(Exc("RuntimeError", "API error"))
    /\ pc[2] = "calling"
    /\ invoked[2] = 1

\* C27: in every reachable state a row whose status is not Error (Pending or
\* Completed) has an empty error text, and the error text of a row is written
\* only by the step that takes the row from Pending to Error.
C27_ErrorTextOnlyOnError ==
    /\ [](\A i \in DOMAIN jobs :
            jobs[i].status # "Error" => jobs[i].error_message = "")
    /\ [][\A i \in DOMAIN jobs :
            jobs'[i].error_message # jobs[i].error_message =>
                jobs[i].status = "Pending" /\ jobs'[i].status = "Error"]_vars

C27_Witness ==
    /\ Len(jobs) = 2
    /\ jobs[1].status = "Error" /\ jobs[1].error_message = "API error"
    /\ jobs[2].status = "Completed" /\ jobs[2].error_message = ""

\* The results _resolve_model may give for the hints, as a set of
\* (raised, model) pairs.
ResultsFor(model_id, provider_type) ==
    { << resolve_result(m).raised, m >> : m \in resolve_model(model_id, provider_type) }

\* C28: when only model_id is given, the hint is ignored.  _resolve_model
\* returns what it returns without hints: an earliest active OpenAI model, else
\* an earliest active Gemini model, else an earliest active model of any
\* vendor, and it raises only when no model is active; this also when an
\* active model with that model_id exists under another vendor or later in
\* the preferred vendor's order.
C28_ModelIdAloneIgnored ==
    resolution # None =>
        LET r == Val(resolution)
            preferred ==
                IF LiveOf("OpenAI") # {} THEN LiveOf("OpenAI")
                ELSE IF LiveOf("Gemini") # {} THEN LiveOf("Gemini")
                ELSE LiveModels
        IN  (r.model_id # None /\ r.provider_type = None)
            => /\ r.result.raised <=> LiveModels = {}
               /\ ~r.result.raised => r.result.value[1] \in Earliest(preferred)
               /\ ResultsFor(r.model_id, None) = ResultsFor(None, None)

C28_Witness ==
    /\ resolution # None
    /\ Val(resolution).model_id = Some("gemini-flash")
    /\ Val(resolution).provider_type = None
    /\ Live(3) /\ Live(4) /\ ~Live(1) /\ ~Live(2)
    /\ ~Val(resolution).result.raised
    /\ Val(resolution).result.value = <<3, 1>>

\* The calls whose adapter returned a response that the Completed save
\* rejects: the cost has more digits than the costs column takes.
SaveFails(c) ==
    Done(c) /\ AdapterReturned(c) /\ FullyPriced(c) /\ ~CostBelowColumnLimit(c)

\* C29: when the adapter's chat returned normally and a later step inside
\* chat fails (here the save of the Completed transition), the failure is
\* handled as an adapter failure is: the row is finalized as Error with the
\* duration and the failure's text, by one update; the failure is raised to
\* the caller and no response is returned; the persisted row is not Completed.
C29_LateFailureIsError ==
    \A c \in Calls :
        SaveFails(c) =>
            /\ Cardinality(RowsOf(c)) = 1
            /\ outcome[c] # None
            /\ Val(outcome[c]).raised
            /\ Val(outcome[c]).exc \in SaveErrors
            /\ \A i \in RowsOf(c) :
                  /\ jobs[i].status = "Error"
                  /\ jobs[i].duration_ms = Some(ElapsedMs(c))
                  /\ jobs[i].error_message = Val(outcome[c]).exc.msg
                  /\ jobs[i].updates = << [by |-> c, status |-> "Error"] >>

C29_Witness ==
    /\ SaveFails(1)
    /\ Val(result[1]).value.text = "Hello, world!"
    /\ Val(outcome[1]) = Raised(Exc("InvalidOperation", "[<class 'decimal.InvalidOperation'>]"))
    /\ jobs[1].status = "Error"
    /\ jobs[1].error_message = "[<class 'decimal.InvalidOperation'>]"

\* C30: the Error finalization changes only status, duration_ms and
\* error_message of the persisted row: agent, user, client_ip, provider, model
\* and timestamp stay as written at creation, and the persisted input_tokens,
\* output_tokens and costs stay null; so every Error row has null token counts
\* and a null cost.
C30_ErrorSaveFields ==
    /\ [](\A i \in DOMAIN jobs :
            jobs[i].status = "Error" =>
                /\ jobs[i].input_tokens = None
                /\ jobs[i].output_tokens = None
                /\ jobs[i].costs = None)
    /\ [][\A i \in DOMAIN jobs :
            (jobs[i].status = "Pending" /\ jobs'[i].status = "Error") =>
                /\ jobs'[i].agent = jobs[i].agent
                /\ jobs'[i].user = jobs[i].user
                /\ jobs'[i].client_ip = jobs[i].client_ip
                /\ jobs'[i].provider = jobs[i].provider
                /\ jobs'[i].model = jobs[i].model
                /\ jobs'[i].timestamp = jobs[i].timestamp
                /\ jobs'[i].input_tokens = None
                /\ jobs'[i].output_tokens = None
                /\ jobs'[i].costs = None]_vars

C30_Witness ==
    /\ Len(jobs) = 2
    /\ jobs[2].status = "Error"
    /\ AdapterReturned(2)
    /\ Val(result[2]).value.input_tokens = Some(2000000)
    /\ jobs[2].input_tokens = None /\ jobs[2].costs = None
    /\ jobs[2].agent = "page-summary-agent"
    /\ jobs[2].user = Some("editor")
    /\ jobs[2].timestamp = 1
    /\ jobs[1].status = "Error" /\ AdapterRaised(1)

====
